---------------------------- MODULE Spec2Model ----------------------------
(***************************************************************************)
(* A model of the three document-ingestion utilities of document_parser:   *)
(*   word_parser.py       parse_docx_sections, heading_level               *)
(*   is_scanned_pdf.py    is_pdf_scanned                                   *)
(*   is_scanned_table.py  detect_scanned_table_by_ocr                      *)
(* Strings are sequences of one-character strings, so that strip, lower,   *)
(* startswith, split and int are computed character by character.  The     *)
(* document, the PDF pages and the OCR engine are the environment: what    *)
(* they yield is chosen nondeterministically from small sets.              *)
(***************************************************************************)
EXTENDS Integers, Sequences, FiniteSets

VARIABLES
    pc,                         \* position of the running function
    \* parse_docx_sections
    include_tables, include_empty_paragraphs, merge_paragraph_runs,
    blocks,                     \* the blocks iter_block_items has yielded so far
    sections, current, lvl,     \* the locals of parse_docx_sections
    result,                     \* the value returned
    \* is_pdf_scanned
    min_text_chars, require_images,
    pages,                      \* the pages the document has yielded so far
    total_text_chars, has_images,
    \* detect_scanned_table_by_ocr
    ocr_min_ratio, min_ocr_chars,
    pdf_chars, ocr_chars, ratio, scanned, confidence

docVars == <<include_tables, include_empty_paragraphs, merge_paragraph_runs,
             blocks, sections, current, lvl>>
pdfVars == <<min_text_chars, require_images, pages, total_text_chars, has_images>>
tblVars == <<ocr_min_ratio, min_ocr_chars, pdf_chars, ocr_chars, ratio, scanned,
             confidence>>
vars == <<pc, result, docVars, pdfVars, tblVars>>

(***************************************************************************)
(* Bounds of the model.                                                    *)
(***************************************************************************)
MaxBlocks == 3          \* blocks of a document
MaxStyleBlocks == 1     \* blocks of a document of the style-name specification
MaxLevel == 12          \* largest N of the generated "Heading N" style names
MaxPages == 2           \* pages of a PDF
MaxChars == 3           \* non-blank characters of an extracted or recognised text
MaxMinChars == 4        \* largest min_text_chars / min_ocr_chars tried
MaxRatioNum == 3        \* largest numerator of ocr_min_ratio tried

(***************************************************************************)
(* Optional values: None, or a value wrapped in a one-element sequence.    *)
(***************************************************************************)
None == << >>
Some(x) == <<x>>
Value(o) == o[1]

(***************************************************************************)
(* Python string operations.                                               *)
(***************************************************************************)
Whitespace == {" ", "\n", "\t", "\r"}

IsSpace(c) == c \in Whitespace

RECURSIVE LStrip(_)
LStrip(s) == IF s # << >> /\ IsSpace(Head(s)) THEN LStrip(Tail(s)) ELSE s

RECURSIVE RStrip(_)
RStrip(s) ==
    IF s # << >> /\ IsSpace(s[Len(s)]) THEN RStrip(SubSeq(s, 1, Len(s) - 1)) ELSE s

\* str.strip()
Strip(s) == RStrip(LStrip(s))

\* str.rstrip("\n")
RECURSIVE RStripNewline(_)
RStripNewline(s) ==
    IF s # << >> /\ s[Len(s)] = "\n"
    THEN RStripNewline(SubSeq(s, 1, Len(s) - 1))
    ELSE s

UpperLetters ==
    <<"A","B","C","D","E","F","G","H","I","J","K","L","M",
      "N","O","P","Q","R","S","T","U","V","W","X","Y","Z">>
LowerLetters ==
    <<"a","b","c","d","e","f","g","h","i","j","k","l","m",
      "n","o","p","q","r","s","t","u","v","w","x","y","z">>

LowerChar(c) ==
    IF \E i \in 1..Len(UpperLetters) : UpperLetters[i] = c
    THEN LowerLetters[CHOOSE i \in 1..Len(UpperLetters) : UpperLetters[i] = c]
    ELSE c

\* str.lower()
Lower(s) == [i \in 1..Len(s) |-> LowerChar(s[i])]

\* str.startswith(p)
StartsWith(s, p) == Len(s) >= Len(p) /\ SubSeq(s, 1, Len(p)) = p

\* the least index >= 1 at which sep occurs in s, or 0
Find(s, sep) ==
    LET hits == {i \in 1..(Len(s) - Len(sep) + 1) : SubSeq(s, i, i + Len(sep) - 1) = sep}
    IN  IF hits = {} THEN 0 ELSE CHOOSE i \in hits : \A j \in hits : i <= j

\* str.split(sep), the list of parts
RECURSIVE Split(_, _)
Split(s, sep) ==
    LET k == Find(s, sep)
    IN  IF k = 0
        THEN <<s>>
        ELSE <<SubSeq(s, 1, k - 1)>> \o Split(SubSeq(s, k + Len(sep), Len(s)), sep)

Digits == <<"0","1","2","3","4","5","6","7","8","9">>

IsDigit(c) == \E i \in 1..Len(Digits) : Digits[i] = c

DigitVal(c) == (CHOOSE i \in 1..Len(Digits) : Digits[i] = c) - 1

RECURSIVE DigitsValue(_, _)
DigitsValue(s, acc) ==
    IF s = << >> THEN acc
    ELSE IF Head(s) = "_" THEN DigitsValue(Tail(s), acc)
    ELSE DigitsValue(Tail(s), 10 * acc + DigitVal(Head(s)))

\* int(s): Some(n), or None where Python raises ValueError.  Surrounding
\* whitespace, one sign, and single underscores between digits are accepted.
ParseInt(s) ==
    LET t == Strip(s)
        signed == t # << >> /\ Head(t) \in {"+", "-"}
        body == IF signed THEN Tail(t) ELSE t
        wellFormed ==
            /\ body # << >>
            /\ \A i \in 1..Len(body) : IsDigit(body[i]) \/ body[i] = "_"
            /\ IsDigit(body[1]) /\ IsDigit(body[Len(body)])
            /\ \A i \in 1..(Len(body) - 1) : ~(body[i] = "_" /\ body[i + 1] = "_")
        magnitude == DigitsValue(body, 0)
    IN  IF ~wellFormed THEN None
        ELSE IF signed /\ Head(t) = "-" THEN Some(0 - magnitude)
        ELSE Some(magnitude)


(***************************************************************************)
(* word_parser.py: blocks, sections and heading_level.                     *)
(* A paragraph block carries its merged text, the texts of its runs and    *)
(* its style (None, or Some(name)); a table block carries its rows of      *)
(* cell texts.                                                             *)
(***************************************************************************)
Paragraph(text, runs, style) == [kind |-> "p", text |-> text, runs |-> runs, style |-> style]

Table(rows) == [kind |-> "t", rows |-> rows]

Section(title, level, content) == [title |-> title, level |-> level, content |-> content]

PreambleTitle == <<"(","p","r","e","a","m","b","l","e",")">>

HeadingPrefix == <<"h","e","a","d","i","n","g"," ">>

\* heading_level(paragraph): Some(level), or None
heading_level(paragraph) ==
    LET style == paragraph.style IN
    IF style = None \/ Value(style) = << >> THEN None
    ELSE LET name == Lower(Strip(Value(style))) IN
         IF StartsWith(name, HeadingPrefix)
         THEN ParseInt(Split(name, HeadingPrefix)[2])
         ELSE None

RECURSIVE Join(_)
Join(parts) == IF parts = << >> THEN << >> ELSE Head(parts) \o Join(Tail(parts))

\* table_to_matrix(table)
table_to_matrix(table) ==
    [r \in 1..Len(table.rows) |->
        [c \in 1..Len(table.rows[r]) |-> Strip(table.rows[r][c])]]

\* the paragraph's text as the loop resolves it (lines 99-100)
ResolvedText(block, merge) ==
    RStripNewline(IF merge THEN block.text ELSE Join(block.runs))

ParagraphItem(block, text) ==
    [type |-> "paragraph", text |-> Strip(text), style |-> block.style]

TableItem(block) == [type |-> "table", rows |-> table_to_matrix(block)]

push_current_always(secs, cur) == Append(secs, cur)

push_current_unless_preamble(secs, cur) ==
    IF cur.title # PreambleTitle THEN Append(secs, cur) ELSE secs

\* push_current_if_has_content(): the sections list after the call
push_current_if_has_content(secs, cur) ==
    IF cur.title # PreambleTitle \/ cur.content # << >> THEN Append(secs, cur) ELSE secs

(***************************************************************************)
(* The documents tried.                                                    *)
(***************************************************************************)
TextBlank == <<" ","\n">>
TextBody == <<" ","a"," ","b","\n">>
TextPreamble == <<" ","(","p","r","e","a","m","b","l","e",")","\n">>

StyleHeading0 == <<"H","e","a","d","i","n","g"," ","0">>
StyleHeading1 == <<"H","e","a","d","i","n","g"," ","1">>
StyleHeading2 == <<"H","e","a","d","i","n","g"," ","2">>

SampleTable == Table(<< <<<<" ","a">>, <<"b"," ">>>> >>)

\* a paragraph whose text sits in a hyperlink, outside its runs
LinkParagraph == Paragraph(TextBody, << >>, None)

DocBlocks ==
    { Paragraph(t, <<t>>, None) : t \in {TextBlank, TextBody} }
    \cup { Paragraph(t, <<t>>, Some(n)) :
              t \in {TextBody, TextPreamble},
              n \in {StyleHeading0, StyleHeading1, StyleHeading2} }
    \cup { Paragraph(TextBlank, <<TextBlank>>, Some(StyleHeading1)) }
    \cup { LinkParagraph, SampleTable }

\* the decimal numeral of a natural number
RECURSIVE Decimal(_)
Decimal(n) == IF n < 10 THEN <<Digits[n + 1]>> ELSE Decimal(n \div 10) \o <<Digits[(n % 10) + 1]>>

StylePrefixes ==
    { <<"H","e","a","d","i","n","g">>, <<"h","e","a","d","i","n","g">>, <<"H","E","A","D","I","N","G">>, <<"H","e","a","d">> }

StyleSuffixes ==
    { Decimal(n) : n \in 0..MaxLevel }
    \cup { << >>, <<"a","b","c">>, <<"-","1">>, <<"3","a">>, <<"1","_","0">> }

StyleNames ==
    { p \o sep \o x : p \in StylePrefixes, sep \in {<< >>, <<" ">>}, x \in StyleSuffixes }
    \cup { << >>, <<"N","o","r","m","a","l">>, <<" ","H","e","a","d","i","n","g"," ","3"," ">>, <<"H","e","a","d","i","n","g"," "," ","4">>, <<"H","e","a","d","i","n","g"," ","1"," ","H","e","a","d","i","n","g"," ","2">>, <<"H","e","a","d","i","n","g","	","5">> }

StyleBlocks ==
    { Paragraph(TextBody, <<TextBody>>, s) : s \in {None} \cup { Some(n) : n \in StyleNames } }
    \cup {Paragraph(TextBlank, <<TextBlank>>, None), SampleTable}

(***************************************************************************)
(* parse_docx_sections: one action per branch of the loop body, taken for  *)
(* the next block the document yields, and one for the code after the loop.*)
(***************************************************************************)
InitDocx ==
    /\ pc = "loop"
    /\ include_tables \in BOOLEAN
    /\ include_empty_paragraphs \in BOOLEAN
    /\ merge_paragraph_runs \in BOOLEAN
    /\ blocks = << >>
    /\ sections = << >>
    /\ current = Section(PreambleTitle, 0, << >>)
    /\ lvl = None
    /\ result = << >>
    /\ min_text_chars = 0 /\ require_images = TRUE /\ pages = << >>
    /\ total_text_chars = 0 /\ has_images = FALSE
    /\ ocr_min_ratio = <<1, 1>> /\ min_ocr_chars = 0 /\ pdf_chars = 0 /\ ocr_chars = 0
    /\ ratio = <<0, 1>> /\ scanned = FALSE /\ confidence = <<0, 1>>

\* lines 102-107: a heading paragraph starts a new section
StartSection(block) ==
    /\ pc = "loop"
    /\ block.kind = "p"
    /\ heading_level(block) # None
    /\ lvl' = heading_level(block)
    /\ sections' = push_current_if_has_content(sections, current)
    /\ current' = Section(Strip(ResolvedText(block, merge_paragraph_runs)), Value(lvl'), << >>)
    /\ blocks' = Append(blocks, block)
    /\ UNCHANGED <<pc, result, include_tables, include_empty_paragraphs,
                   merge_paragraph_runs, pdfVars, tblVars>>

\* lines 109-110: an empty paragraph is skipped
SkipParagraph(block) ==
    /\ pc = "loop"
    /\ block.kind = "p"
    /\ heading_level(block) = None
    /\ ~include_empty_paragraphs
    /\ Strip(ResolvedText(block, merge_paragraph_runs)) = << >>
    /\ lvl' = heading_level(block)
    /\ blocks' = Append(blocks, block)
    /\ UNCHANGED <<pc, result, sections, current, include_tables,
                   include_empty_paragraphs, merge_paragraph_runs, pdfVars, tblVars>>

\* lines 112-118: an ordinary paragraph joins the current section
AppendParagraph(block) ==
    /\ pc = "loop"
    /\ block.kind = "p"
    /\ heading_level(block) = None
    /\ include_empty_paragraphs \/ Strip(ResolvedText(block, merge_paragraph_runs)) # << >>
    /\ lvl' = heading_level(block)
    /\ current' = [current EXCEPT !.content =
                      Append(@, ParagraphItem(block, ResolvedText(block, merge_paragraph_runs)))]
    /\ blocks' = Append(blocks, block)
    /\ UNCHANGED <<pc, result, sections, include_tables, include_empty_paragraphs,
                   merge_paragraph_runs, pdfVars, tblVars>>

\* lines 120-126: a table joins the current section
AppendTable(block) ==
    /\ pc = "loop"
    /\ block.kind = "t"
    /\ include_tables
    /\ current' = [current EXCEPT !.content = Append(@, TableItem(block))]
    /\ blocks' = Append(blocks, block)
    /\ UNCHANGED <<pc, result, sections, lvl, include_tables, include_empty_paragraphs,
                   merge_paragraph_runs, pdfVars, tblVars>>

\* line 120: a table is passed over when include_tables is false
SkipTable(block) ==
    /\ pc = "loop"
    /\ block.kind = "t"
    /\ ~include_tables
    /\ blocks' = Append(blocks, block)
    /\ UNCHANGED <<pc, result, sections, current, lvl, include_tables,
                   include_empty_paragraphs, merge_paragraph_runs, pdfVars, tblVars>>

\* lines 128-131: the last section is pushed and the list returned
Finalize ==
    /\ pc = "loop"
    /\ sections' = push_current_if_has_content(sections, current)
    /\ result' = sections'
    /\ pc' = "done"
    /\ UNCHANGED <<blocks, current, lvl, include_tables, include_empty_paragraphs,
                   merge_paragraph_runs, pdfVars, tblVars>>

NextDocx ==
    \/ \E block \in DocBlocks : Len(blocks) < MaxBlocks /\ StartSection(block)
    \/ \E block \in DocBlocks : Len(blocks) < MaxBlocks /\ SkipParagraph(block)
    \/ \E block \in DocBlocks : Len(blocks) < MaxBlocks /\ AppendParagraph(block)
    \/ \E block \in DocBlocks : Len(blocks) < MaxBlocks /\ AppendTable(block)
    \/ \E block \in DocBlocks : Len(blocks) < MaxBlocks /\ SkipTable(block)
    \/ Finalize

SpecDocx == InitDocx /\ [][NextDocx]_vars

NextStyles ==
    \/ \E block \in StyleBlocks : Len(blocks) < MaxStyleBlocks /\ StartSection(block)
    \/ \E block \in StyleBlocks : Len(blocks) < MaxStyleBlocks /\ SkipParagraph(block)
    \/ \E block \in StyleBlocks : Len(blocks) < MaxStyleBlocks /\ AppendParagraph(block)
    \/ \E block \in StyleBlocks : Len(blocks) < MaxStyleBlocks /\ AppendTable(block)
    \/ \E block \in StyleBlocks : Len(blocks) < MaxStyleBlocks /\ SkipTable(block)
    \/ Finalize

SpecStyles == InitDocx /\ [][NextStyles]_vars

(***************************************************************************)
(* The texts the PDF library and the OCR engine yield: n non-blank         *)
(* characters, with or without blank characters around them.               *)
(***************************************************************************)
RECURSIVE Repeat(_, _)
Repeat(c, n) == IF n = 0 THEN << >> ELSE <<c>> \o Repeat(c, n - 1)

ExtractedTexts ==
    { Repeat("x", n) : n \in 0..MaxChars }
    \cup { <<" ">> \o Repeat("x", n) \o <<"\n">> : n \in 0..MaxChars }

(***************************************************************************)
(* is_scanned_pdf.py: is_pdf_scanned.  A page carries the text get_text    *)
(* extracts and the list get_images returns.                               *)
(***************************************************************************)
Page(text, images) == [text |-> text, images |-> images]

PdfPages == { Page(t, i) : t \in ExtractedTexts, i \in {<< >>, <<"xref">>} }

InitPdf ==
    /\ pc = "pages"
    /\ min_text_chars \in 0..MaxMinChars
    /\ require_images \in BOOLEAN
    /\ pages = << >>
    /\ total_text_chars = 0
    /\ has_images = FALSE
    /\ result = << >>
    /\ include_tables = TRUE /\ include_empty_paragraphs = FALSE
    /\ merge_paragraph_runs = TRUE /\ blocks = << >> /\ sections = << >>
    /\ current = Section(PreambleTitle, 0, << >>) /\ lvl = None
    /\ ocr_min_ratio = <<1, 1>> /\ min_ocr_chars = 0 /\ pdf_chars = 0 /\ ocr_chars = 0
    /\ ratio = <<0, 1>> /\ scanned = FALSE /\ confidence = <<0, 1>>

has_images_last_page(seen, page) == page.images # << >>

\* lines 30-33: has_images after a page
has_images_after(seen, page) == IF ~seen THEN page.images # << >> ELSE seen

\* lines 26-33: one iteration of the loop over the pages
ReadPage(page) ==
    /\ pc = "pages"
    /\ total_text_chars' = total_text_chars + Len(Strip(page.text))
    /\ has_images' = has_images_after(has_images, page)
    /\ pages' = Append(pages, page)
    /\ UNCHANGED <<pc, result, min_text_chars, require_images, docVars, tblVars>>

\* line 35: the test for a text-based PDF
is_text_based(total, minimum) == total >= minimum

\* lines 35-36
ReturnTextBased ==
    /\ pc = "pages"
    /\ is_text_based(total_text_chars, min_text_chars)
    /\ result' = FALSE
    /\ pc' = "done"
    /\ UNCHANGED <<docVars, pdfVars, tblVars>>

\* lines 38-39
ReturnHasImages ==
    /\ pc = "pages"
    /\ ~is_text_based(total_text_chars, min_text_chars)
    /\ require_images
    /\ result' = has_images
    /\ pc' = "done"
    /\ UNCHANGED <<docVars, pdfVars, tblVars>>

\* line 41
ReturnScanned ==
    /\ pc = "pages"
    /\ ~is_text_based(total_text_chars, min_text_chars)
    /\ ~require_images
    /\ result' = TRUE
    /\ pc' = "done"
    /\ UNCHANGED <<docVars, pdfVars, tblVars>>

NextPdf ==
    \/ \E page \in PdfPages : Len(pages) < MaxPages /\ ReadPage(page)
    \/ ReturnTextBased
    \/ ReturnHasImages
    \/ ReturnScanned

SpecPdf == InitPdf /\ [][NextPdf]_vars

(***************************************************************************)
(* is_scanned_table.py: detect_scanned_table_by_ocr.  A float is a pair    *)
(* <<numerator, denominator>> with a positive denominator; the character   *)
(* counts are far below the range where float rounding matters.            *)
(***************************************************************************)
RatLe(a, b) == a[1] * b[2] <= b[1] * a[2]

RatLt(a, b) == a[1] * b[2] < b[1] * a[2]

RatEq(a, b) == a[1] * b[2] = b[1] * a[2]

One == <<1, 1>>

\* a / b for b # 0, the denominator kept positive
RatDiv(a, b) ==
    IF b[1] > 0 THEN <<a[1] * b[2], a[2] * b[1]>>
    ELSE <<0 - (a[1] * b[2]), 0 - (a[2] * b[1])>>

RatTimes(a, n) == <<a[1] * n, a[2]>>

Max(a, b) == IF a >= b THEN a ELSE b

\* min(1.0, x)
MinOne(x) == IF RatLt(x, One) THEN x ELSE One

Thresholds == { <<n, d>> : n \in (0 - 1)..MaxRatioNum, d \in {1, 2} }

InitTable ==
    /\ pc = "extract"
    /\ ocr_min_ratio \in Thresholds
    /\ min_ocr_chars \in 0..MaxMinChars
    /\ pdf_chars = 0 /\ ocr_chars = 0
    /\ ratio = <<0, 1>> /\ scanned = FALSE /\ confidence = <<0, 1>>
    /\ result = << >>
    /\ include_tables = TRUE /\ include_empty_paragraphs = FALSE
    /\ merge_paragraph_runs = TRUE /\ blocks = << >> /\ sections = << >>
    /\ current = Section(PreambleTitle, 0, << >>) /\ lvl = None
    /\ min_text_chars = 0 /\ require_images = TRUE /\ pages = << >>
    /\ total_text_chars = 0 /\ has_images = FALSE

\* lines 38-40: the text the PDF holds in the region
ExtractPdfText(pdf_text) ==
    /\ pc = "extract"
    /\ pdf_chars' = Len(Strip(pdf_text))
    /\ pc' = "ocr"
    /\ UNCHANGED <<result, ocr_min_ratio, min_ocr_chars, ocr_chars, ratio, scanned,
                   confidence, docVars, pdfVars>>

\* lines 42-48: the text the OCR engine reads off the rendered region
RecogniseText(ocr_text) ==
    /\ pc = "ocr"
    /\ ocr_chars' = Len(Strip(ocr_text))
    /\ pc' = "decide"
    /\ UNCHANGED <<result, ocr_min_ratio, min_ocr_chars, pdf_chars, ratio, scanned,
                   confidence, docVars, pdfVars>>

is_scanned_either(chars, minimum, r, threshold) == chars >= minimum \/ RatLe(threshold, r)

\* line 52
is_scanned(chars, minimum, r, threshold) == chars >= minimum /\ RatLe(threshold, r)

\* lines 51-52
Decide ==
    /\ pc = "decide"
    /\ ratio' = <<ocr_chars, Max(1, pdf_chars)>>
    /\ scanned' = is_scanned(ocr_chars, min_ocr_chars, ratio', ocr_min_ratio)
    /\ pc' = "confidence"
    /\ UNCHANGED <<result, ocr_min_ratio, min_ocr_chars, pdf_chars, ocr_chars,
                   confidence, docVars, pdfVars>>

\* lines 54-63: the confidence is computed and the record returned
ReturnResult ==
    /\ pc = "confidence"
    /\ RatTimes(ocr_min_ratio, 2)[1] # 0
    /\ confidence' = MinOne(RatDiv(ratio, RatTimes(ocr_min_ratio, 2)))
    /\ result' = [pdf_text_chars |-> pdf_chars, ocr_text_chars |-> ocr_chars,
                  scanned |-> scanned, confidence |-> confidence']
    /\ pc' = "done"
    /\ UNCHANGED <<ocr_min_ratio, min_ocr_chars, pdf_chars, ocr_chars, ratio, scanned,
                   docVars, pdfVars>>

\* line 54: the float division raises ZeroDivisionError when ocr_min_ratio * 2 is 0.0
RaiseZeroDivision ==
    /\ pc = "confidence"
    /\ RatTimes(ocr_min_ratio, 2)[1] = 0
    /\ pc' = "ZeroDivisionError"
    /\ UNCHANGED <<result, tblVars, docVars, pdfVars>>

NextTable ==
    \/ \E pdf_text \in ExtractedTexts : ExtractPdfText(pdf_text)
    \/ \E ocr_text \in ExtractedTexts : RecogniseText(ocr_text)
    \/ Decide
    \/ ReturnResult
    \/ RaiseZeroDivision

SpecTable == InitTable /\ [][NextTable]_vars

(***************************************************************************)
(* What the claims speak of, stated over the blocks the document yielded.  *)
(***************************************************************************)
IsHeading(block) == block.kind = "p" /\ heading_level(block) # None

\* a non-heading block that the options keep
IsKept(block) ==
    /\ ~IsHeading(block)
    /\ block.kind = "t" => include_tables
    /\ block.kind = "p" =>
          \/ include_empty_paragraphs
          \/ Strip(ResolvedText(block, merge_paragraph_runs)) # << >>

ItemOf(block) ==
    IF block.kind = "t"
    THEN TableItem(block)
    ELSE ParagraphItem(block, ResolvedText(block, merge_paragraph_runs))

RECURSIVE FilteredItems(_)
FilteredItems(bs) ==
    IF bs = << >> THEN << >>
    ELSE (IF IsKept(Head(bs)) THEN <<ItemOf(Head(bs))>> ELSE << >>) \o FilteredItems(Tail(bs))

RECURSIVE ConcatContent(_)
ConcatContent(secs) ==
    IF secs = << >> THEN << >> ELSE Head(secs).content \o ConcatContent(Tail(secs))

\* the index of the first heading of the stream, or one past its end
FirstHeading(bs) ==
    IF \E i \in 1..Len(bs) : IsHeading(bs[i])
    THEN CHOOSE i \in 1..Len(bs) : IsHeading(bs[i]) /\ \A j \in 1..(i - 1) : ~IsHeading(bs[j])
    ELSE Len(bs) + 1

\* the kept items that precede the first heading
PreambleItems == FilteredItems(SubSeq(blocks, 1, FirstHeading(blocks) - 1))

PreambleCount == IF PreambleItems # << >> THEN 1 ELSE 0

IsPreambleLike(sec) == sec.level = 0 /\ sec.title = PreambleTitle

HeadingTitle(block) == Strip(ResolvedText(block, merge_paragraph_runs))

RECURSIVE HeadingsOf(_)
HeadingsOf(bs) ==
    IF bs = << >> THEN << >>
    ELSE (IF IsHeading(Head(bs))
          THEN << <<HeadingTitle(Head(bs)), Value(heading_level(Head(bs)))>> >>
          ELSE << >>) \o HeadingsOf(Tail(bs))

TitlesAndLevels(secs) == [i \in 1..Len(secs) |-> <<secs[i].title, secs[i].level>>]

Range(f) == { f[i] : i \in DOMAIN f }

(***************************************************************************)
(* C1: the contents of the returned sections, concatenated in output       *)
(* order, are exactly the kept non-heading blocks of the input in their    *)
(* original order: nothing lost, duplicated or reordered.                  *)
(***************************************************************************)
C1_ContentIsPartition == pc = "done" => ConcatContent(result) = FilteredItems(blocks)

C1_Witness ==
    /\ pc = "done"
    /\ Len(result) >= 2
    /\ ConcatContent(result) # << >>
    /\ \E i \in 1..Len(blocks) : ~IsHeading(blocks[i]) /\ ~IsKept(blocks[i])

C3_NoPreambleAfterLeadingHeading ==
    (pc = "done" /\ blocks # << >> /\ IsHeading(blocks[1])) =>
        \A i \in 1..Len(result) : ~IsPreambleLike(result[i])

(***************************************************************************)
(* C5: every section has a level >= 0, and a section started by a heading  *)
(* never has level 0 or a negative level.                                  *)
(***************************************************************************)
C5_HeadingSectionsHavePositiveLevel ==
    pc = "done" =>
        \A i \in 1..Len(result) :
            /\ result[i].level >= 0
            /\ i > PreambleCount => result[i].level > 0

(***************************************************************************)
(* C9: a kept block that follows a heading h, with only deeper headings in *)
(* between, is part of the content of the section that h started.          *)
(***************************************************************************)
C9_ContentContinuesPastDeeperHeadings ==
    pc = "done" =>
        \A h \in 1..Len(blocks), j \in 1..Len(blocks) :
            ( /\ h < j
              /\ IsHeading(blocks[h])
              /\ IsKept(blocks[j])
              /\ \A k \in (h + 1)..(j - 1) :
                    IsHeading(blocks[k]) =>
                        Value(heading_level(blocks[k])) > Value(heading_level(blocks[h])) )
            => \E i \in 1..Len(result) :
                  /\ result[i].title = HeadingTitle(blocks[h])
                  /\ result[i].level = Value(heading_level(blocks[h]))
                  /\ ItemOf(blocks[j]) \in Range(result[i].content)

(***************************************************************************)
(* C10: with a leading pre-heading section removed, the sections are, one  *)
(* for one and in order, the headings of the input, each with the          *)
(* heading's trimmed text and level; no heading is dropped.                *)
(***************************************************************************)
C10_OneSectionPerHeading ==
    pc = "done" =>
        TitlesAndLevels(SubSeq(result, PreambleCount + 1, Len(result))) = HeadingsOf(blocks)

(***************************************************************************)
(* C4: "Heading N" resolves to level N; a missing style, "Heading" with no *)
(* number, a name with the heading prefix and a non-integer suffix, and    *)
(* any name without the prefix resolve to None; and a paragraph resolved   *)
(* as not a heading never starts a section: beside the pre-heading section *)
(* there is at most one section for each heading.  lvl is the level        *)
(* resolved for the last paragraph read.                                   *)
(***************************************************************************)
HeadingWord == <<"H","e","a","d","i","n","g">>

\* the name, trimmed and lower-cased, with the heading prefix removed
SuffixOf(name) ==
    LET n == Lower(Strip(name)) IN SubSeq(n, Len(HeadingPrefix) + 1, Len(n))

HasHeadingPrefix(name) == StartsWith(Lower(Strip(name)), HeadingPrefix)

C4_HeadingResolution ==
    /\ (blocks # << >> /\ blocks[Len(blocks)].kind = "p") =>
          LET style == blocks[Len(blocks)].style IN
          /\ style = None => lvl = None
          /\ \A n \in 0..MaxLevel :
                style = Some(HeadingWord \o <<" ">> \o Decimal(n)) => lvl = Some(n)
          /\ style = Some(HeadingWord) => lvl = None
          /\ style = Some(<<"h","e","a","d","i","n","g"," ","a","b","c">>) => lvl = None
          /\ (style # None /\ ~HasHeadingPrefix(Value(style))) => lvl = None
          /\ (style # None /\ HasHeadingPrefix(Value(style))
                /\ ParseInt(SuffixOf(Value(style))) = None) => lvl = None
    /\ Len(sections) + (IF pc = "loop" THEN 1 ELSE 0) <= 1 + Len(HeadingsOf(blocks))

(***************************************************************************)
(* C6: a total stripped text length >= min_text_chars gives false whatever *)
(* the images; below it, with require_images, the result is whether some   *)
(* page of the document holds an image.                                    *)
(***************************************************************************)
RECURSIVE TotalStripped(_)
TotalStripped(ps) ==
    IF ps = << >> THEN 0 ELSE Len(Strip(Head(ps).text)) + TotalStripped(Tail(ps))

AnyImage(ps) == \E i \in 1..Len(ps) : ps[i].images # << >>

C6_ScannedPdfVerdict ==
    pc = "done" =>
        /\ TotalStripped(pages) >= min_text_chars => result = FALSE
        /\ (TotalStripped(pages) < min_text_chars /\ require_images) =>
              result = AnyImage(pages)

C6_Witness ==
    /\ pc = "done"
    /\ Len(pages) >= 2
    /\ TotalStripped(pages) > 0
    /\ TotalStripped(pages) < min_text_chars
    /\ require_images
    /\ pages[1].images # << >> /\ pages[2].images = << >>
    /\ result = TRUE

(***************************************************************************)
(* C7: ocr_chars < min_ocr_chars gives scanned = false whatever the ratio; *)
(* ocr_chars / max(1, pdf_chars) >= ocr_min_ratio with                     *)
(* ocr_chars >= min_ocr_chars gives scanned = true.                        *)
(***************************************************************************)
Decided == pc \in {"confidence", "done", "ZeroDivisionError"}

RatioAtLeastThreshold ==
    ocr_chars * ocr_min_ratio[2] >= ocr_min_ratio[1] * (IF pdf_chars = 0 THEN 1 ELSE pdf_chars)

C7_ScannedVerdict ==
    Decided =>
        /\ ocr_chars < min_ocr_chars => scanned = FALSE
        /\ (RatioAtLeastThreshold /\ ocr_chars >= min_ocr_chars) => scanned = TRUE

C7_Witness ==
    /\ pc = "confidence"
    /\ pdf_chars = 0
    /\ ocr_chars > 0 /\ ocr_chars >= min_ocr_chars /\ min_ocr_chars > 0
    /\ ocr_min_ratio[1] > 0
    /\ scanned = TRUE

(***************************************************************************)
(* C8: for every ocr_chars, pdf_chars and ocr_min_ratio the call yields a  *)
(* result record, whose confidence is min(1.0, ratio / (ocr_min_ratio*2))  *)
(* with ratio = ocr_chars / max(1, pdf_chars), and is at most 1.0.         *)
(***************************************************************************)
C8_ConfidenceAlwaysReturned ==
    /\ pc # "ZeroDivisionError"
    /\ pc = "done" =>
          LET r == <<ocr_chars, IF pdf_chars = 0 THEN 1 ELSE pdf_chars>>
              x == RatDiv(r, <<2 * ocr_min_ratio[1], ocr_min_ratio[2]>>)
          IN  /\ RatEq(result.confidence, IF RatLe(One, x) THEN One ELSE x)
              /\ RatLe(result.confidence, One)

=============================================================================
